---- MODULE Spec2Model ----
(***************************************************************************)
(* Model of pipable/pipable.py: the Pipable orchestrator.                  *)
(*                                                                         *)
(* The orchestrator is single-threaded and synchronous, so every public    *)
(* method is one atomic action.  The two collaborators (the database       *)
(* connector and the language-model client) are external: each call to     *)
(* them is a nondeterministic choice among the outcomes their interface    *)
(* allows (a value, or a raised exception carrying a message).             *)
(*                                                                         *)
(* Every method is modelled as an operator that yields the SET of          *)
(* outcomes the method can have from a given object state; an outcome      *)
(* records the fields the method leaves behind, what it returned or        *)
(* raised, and the collaborator calls it made, in order.                   *)
(*                                                                         *)
(* Statement texts, messages and questions are TLA+ strings (built with    *)
(* \o as the f-strings build them); the text coming back from the language *)
(* model is a sequence of one-character strings, so that str.strip() can   *)
(* be computed on it, and becomes a string again once stripped.            *)
(***************************************************************************)
EXTENDS Integers, Sequences, FiniteSets, TLC

VARIABLES
    connected,          \* self.connected
    all_table_queries,  \* self.all_table_queries
    count,              \* observer: clamped count of connect()/disconnect() calls that returned
    last                \* observer: the last method call and its outcome

vars == <<connected, all_table_queries, count, last>>

(***************************************************************************)
(* Bounds and input domains                                                *)
(***************************************************************************)
MaxRows == 3

\* An optional Python value: None, or a value v.  (The absent v is written <<>>,
\* so that optional lists, frames and texts stay comparable with each other.)
None == [none |-> TRUE, v |-> <<>>]

Some(v) == [none |-> FALSE, v |-> v]

\* the place of a value where a call returned nothing (it raised, or returns None)
NoValue == "<no value>"

\* "no exception": the method returned normally
NoExc == [kind |-> "", msg |-> ""]

Exc(kind, msg) == [kind |-> kind, msg |-> msg]

\* messages of the exceptions the collaborators raise
ConnectErrors == {"could not connect to server"}
DisconnectErrors == {"connection already closed"}
QueryErrors == {"relation does not exist"}
LlmErrors == {"LLM API unreachable"}

\* what a catalog answer that is no column-info DataFrame makes pandas raise
GroupingErrors == {"'NoneType' object has no attribute 'groupby'"}

\* table names, in the order Python compares strings
TableNames == <<"orders", "users">>

\* rows (table_name, column_name, data_type) the catalog can hold
CatalogRows ==
    { [table_name |-> "users", column_name |-> "id", data_type |-> "integer"],
      [table_name |-> "users", column_name |-> "name", data_type |-> "text"],
      [table_name |-> "orders", column_name |-> "id", data_type |-> "integer"] }

\* DataFrames the catalog query can return: every row sequence up to MaxRows
ColumnInfoFrames == UNION { [1..n -> CatalogRows] : n \in 0..MaxRows }

\* what execute_query can return for the catalog query: a column-info frame, or
\* something that is none (None stands for every such answer)
CatalogReturns == { Some(df) : df \in ColumnInfoFrames } \cup { None }

\* values of the table_names argument
TableNameArgs == { None, Some(<<>>), Some(<<"orders">>), Some(<<"orders", "users">>) }

Questions == { "average salary", "how many orders" }

\* result sets the connector returns for generated SQL
ResultSets == { "df_one_row", "df_empty" }

\* texts the language model can return (None is falsy like the empty text)
LlmTexts ==
    { <<>>, <<" ">>, <<" ", "S", "\n">> }

LlmReturns == { Some(t) : t \in LlmTexts } \cup { None }

(***************************************************************************)
(* Collaborator calls, as they appear in an outcome's call log             *)
(***************************************************************************)
\* fn(arg) returned out (ok), or raised an exception with message err
Returned(fn, arg, out) == [fn |-> fn, arg |-> arg, ok |-> TRUE, out |-> out, err |-> ""]

Raised(fn, arg, out, err) == [fn |-> fn, arg |-> arg, ok |-> FALSE, out |-> out, err |-> err]

\* DatabaseConnectorInterface.connect(): returns, or raises
connector_connect ==
    { Returned("connect", <<>>, NoValue) }
        \cup { Raised("connect", <<>>, NoValue, m) : m \in ConnectErrors }

\* DatabaseConnectorInterface.disconnect(): returns, or raises
connector_disconnect ==
    { Returned("disconnect", <<>>, NoValue) }
        \cup { Raised("disconnect", <<>>, NoValue, m) : m \in DisconnectErrors }

(***************************************************************************)
(* Pipable.connect / Pipable.disconnect                                    *)
(***************************************************************************)
MethodOutcome(c, calls, exc) == [connected |-> c, calls |-> calls, exc |-> exc]

\* mutant: connect() without its "if not self.connected" test
connect_unguarded(c) ==
    { IF k.ok
      THEN MethodOutcome(TRUE, <<k>>, NoExc)
      ELSE MethodOutcome(c, <<k>>,
               Exc("ConnectionError", "Failed to connect to the database."))
      : k \in connector_connect }

\* mutant: connect() that tries the connector a second time when it raised
connect_retries(c) ==
    IF ~c
    THEN UNION { IF k.ok
                 THEN { MethodOutcome(TRUE, <<k>>, NoExc) }
                 ELSE { IF k2.ok
                        THEN MethodOutcome(TRUE, <<k, k2>>, NoExc)
                        ELSE MethodOutcome(c, <<k, k2>>,
                                 Exc("ConnectionError", "Failed to connect to the database."))
                        : k2 \in connector_connect }
                 : k \in connector_connect }
    ELSE { MethodOutcome(c, <<>>, NoExc) }

connect(c) ==
    IF ~c
    THEN { IF k.ok
           THEN MethodOutcome(TRUE, <<k>>, NoExc)
           ELSE MethodOutcome(c, <<k>>,
                    Exc("ConnectionError", "Failed to connect to the database."))
           : k \in connector_connect }
    ELSE { MethodOutcome(c, <<>>, NoExc) }

\* mutant: disconnect() that never assigns self.connected = False
disconnect_keeps_flag(c) ==
    IF c
    THEN { IF k.ok
           THEN MethodOutcome(c, <<k>>, NoExc)
           ELSE MethodOutcome(c, <<k>>,
                    Exc("ConnectionError", "Failed to disconnect from the database."))
           : k \in connector_disconnect }
    ELSE { MethodOutcome(c, <<>>, NoExc) }

\* mutant: disconnect() that assigns self.connected = False before the call
disconnect_flag_first(c) ==
    IF c
    THEN { IF k.ok
           THEN MethodOutcome(FALSE, <<k>>, NoExc)
           ELSE MethodOutcome(FALSE, <<k>>,
                    Exc("ConnectionError", "Failed to disconnect from the database."))
           : k \in connector_disconnect }
    ELSE { MethodOutcome(c, <<>>, NoExc) }

disconnect(c) ==
    IF c
    THEN { IF k.ok
           THEN MethodOutcome(FALSE, <<k>>, NoExc)
           ELSE MethodOutcome(c, <<k>>,
                    Exc("ConnectionError", "Failed to disconnect from the database."))
           : k \in connector_disconnect }
    ELSE { MethodOutcome(c, <<>>, NoExc) }

(***************************************************************************)
(* String helpers                                                          *)
(***************************************************************************)
RECURSIVE Join(_, _)
\* sep.join(strs)
Join(sep, strs) ==
    IF Len(strs) = 0 THEN ""
    ELSE IF Len(strs) = 1 THEN strs[1]
    ELSE strs[1] \o sep \o Join(sep, Tail(strs))

(***************************************************************************)
(* Pipable._generate_create_table_statements                               *)
(***************************************************************************)
\* f"'{table}'"
Quoted(table) == "'" \o table \o "'"

\* mutant: the WHERE clause without the len(table_names) > 0 test
where_clause_without_len_test(table_names) ==
    IF ~table_names.none
    THEN "WHERE table_name IN ("
             \o Join(",", [i \in 1..Len(table_names.v) |-> Quoted(table_names.v[i])]) \o ")"
    ELSE "WHERE table_schema = 'public'"

\* the WHERE clause of the catalog query
where_clause(table_names) ==
    IF ~table_names.none /\ Len(table_names.v) > 0
    THEN "WHERE table_name IN ("
             \o Join(",", [i \in 1..Len(table_names.v) |-> Quoted(table_names.v[i])]) \o ")"
    ELSE "WHERE table_schema = 'public'"

\* the catalog query (its line breaks and indentation written as single spaces)
column_info_query(table_names) ==
    "SELECT table_name, column_name, data_type FROM information_schema.columns "
        \o where_clause(table_names) \o ";"

\* f"{row['column_name']} {row['data_type']}"
ColumnText(row) == row.column_name \o " " \o row.data_type

\* the lambda applied to one group: its rows' column texts joined by ", "
GroupColumns(rows) == Join(", ", [i \in 1..Len(rows) |-> ColumnText(rows[i])])

\* the group keys of df.groupby("table_name"): the distinct table names of the
\* frame, sorted (groupby's default sort=True)
GroupKeys(df) ==
    LET present(t) == \E i \in 1..Len(df) : df[i].table_name = t
    IN  SelectSeq(TableNames, present)

\* the rows of one group, in the frame's row order
GroupRows(df, t) ==
    LET inGroup(row) == row.table_name = t
    IN  SelectSeq(df, inGroup)

\* f"CREATE TABLE {table_name} ({columns});"
CreateTable(table_name, columns) ==
    "CREATE TABLE " \o table_name \o " (" \o columns \o ");"

\* str() of the empty Series that stands for one column of an empty frame
EmptySeriesText(column) ==
    "Series([], Name: " \o column \o ", dtype: object)"

\* groupby(...).apply(...) on a frame with no rows calls the lambda for no
\* group and returns an empty DataFrame, not a Series.  Its .items() are its
\* columns: none in the pandas versions that build DataFrame(index=keys),
\* the frame's own columns in the versions that build
\* DataFrame(index=result_index, columns=data.columns).
EmptyFrameStatements ==
    { <<>>,
      << CreateTable("table_name", EmptySeriesText("table_name")),
         CreateTable("column_name", EmptySeriesText("column_name")),
         CreateTable("data_type", EmptySeriesText("data_type")) >> }

\* the statement lists lines 104-117 can make of a column-info frame
RenderStatements(df) ==
    IF Len(df) = 0
    THEN EmptyFrameStatements
    ELSE LET keys == GroupKeys(df)
         IN  { [i \in 1..Len(keys) |->
                    CreateTable(keys[i], GroupColumns(GroupRows(df, keys[i])))] }

\* DatabaseConnectorInterface.execute_query(column_info_query): a frame of
\* column info, something that is no such frame, or a raised exception
connector_catalog_query(query) ==
    { Returned("execute_query", <<query>>, df) : df \in CatalogReturns }
        \cup { Raised("execute_query", <<query>>, None, m) : m \in QueryErrors }

BuildOutcome(cache, ret, calls, exc, cause) ==
    [cache |-> cache, ret |-> ret, calls |-> calls, exc |-> exc, cause |-> cause]

StatementsError == Exc("ValueError", "Error generating CREATE TABLE statements.")

\* mutant: the build without lines 83-84, querying the catalog on every call
generate_create_table_statements_uncached(cache, table_names) ==
    UNION {
        IF ~k.ok
        THEN { BuildOutcome(cache, None, <<k>>, StatementsError,
                            Exc("Exception", k.err)) }
        ELSE IF k.out.none
        THEN { BuildOutcome(cache, None, <<k>>, StatementsError,
                            Exc("AttributeError", m)) : m \in GroupingErrors }
        ELSE { BuildOutcome(Some(stmts), Some(stmts), <<k>>, NoExc, NoExc)
                    : stmts \in RenderStatements(k.out.v) }
        : k \in connector_catalog_query(column_info_query(table_names)) }

\* mutant: the build without the try/except of lines 99-122: what the query
\* or the grouping raised reaches the caller as it is
generate_create_table_statements_unwrapped(cache, table_names) ==
    IF ~cache.none
    THEN { BuildOutcome(cache, cache, <<>>, NoExc, NoExc) }
    ELSE UNION {
        IF ~k.ok
        THEN { BuildOutcome(cache, None, <<k>>, Exc("Exception", k.err),
                            Exc("Exception", k.err)) }
        ELSE IF k.out.none
        THEN { BuildOutcome(cache, None, <<k>>, Exc("AttributeError", m),
                            Exc("AttributeError", m)) : m \in GroupingErrors }
        ELSE { BuildOutcome(Some(stmts), Some(stmts), <<k>>, NoExc, NoExc)
                    : stmts \in RenderStatements(k.out.v) }
        : k \in connector_catalog_query(column_info_query(table_names)) }

\* mutant: the build assigns self.all_table_queries = [] before its try block
generate_create_table_statements_caches_early(cache, table_names) ==
    IF ~cache.none
    THEN { BuildOutcome(cache, cache, <<>>, NoExc, NoExc) }
    ELSE UNION {
        IF ~k.ok
        THEN { BuildOutcome(Some(<<>>), None, <<k>>, StatementsError,
                            Exc("Exception", k.err)) }
        ELSE IF k.out.none
        THEN { BuildOutcome(Some(<<>>), None, <<k>>, StatementsError,
                            Exc("AttributeError", m)) : m \in GroupingErrors }
        ELSE { BuildOutcome(Some(stmts), Some(stmts), <<k>>, NoExc, NoExc)
                    : stmts \in RenderStatements(k.out.v) }
        : k \in connector_catalog_query(column_info_query(table_names)) }

generate_create_table_statements(cache, table_names) ==
    IF ~cache.none
    THEN { BuildOutcome(cache, cache, <<>>, NoExc, NoExc) }
    ELSE UNION {
        IF ~k.ok
        THEN { BuildOutcome(cache, None, <<k>>, StatementsError,
                            Exc("Exception", k.err)) }
        ELSE IF k.out.none
        THEN { BuildOutcome(cache, None, <<k>>, StatementsError,
                            Exc("AttributeError", m)) : m \in GroupingErrors }
        ELSE { BuildOutcome(Some(stmts), Some(stmts), <<k>>, NoExc, NoExc)
                    : stmts \in RenderStatements(k.out.v) }
        : k \in connector_catalog_query(column_info_query(table_names)) }

(***************************************************************************)
(* Pipable._generate_sql_query                                             *)
(***************************************************************************)
\* the characters str.strip() removes
Whitespace == { " ", "\n", "\t" }

RECURSIVE lstrip(_)
lstrip(text) ==
    IF Len(text) > 0 /\ Head(text) \in Whitespace THEN lstrip(Tail(text)) ELSE text

RECURSIVE rstrip(_)
rstrip(text) ==
    IF Len(text) > 0 /\ text[Len(text)] \in Whitespace
    THEN rstrip(SubSeq(text, 1, Len(text) - 1))
    ELSE text

\* str.strip()
strip(text) == rstrip(lstrip(text))

\* the string whose characters are chars
Text(chars) == Join("", chars)

\* Python truthiness of what generate_text returned: None and "" are falsy
Truthy(text) == ~text.none /\ Len(text.v) > 0

\* LlmApiClientInterface.generate_text(context, question): a text, None, or
\* a raised exception
llm_generate_text(context, question) ==
    { Returned("generate_text", <<context, question>>, t) : t \in LlmReturns }
        \cup { Raised("generate_text", <<context, question>>, None, m) : m \in LlmErrors }

QueryOutcome(ret, calls, exc) == [ret |-> ret, calls |-> calls, exc |-> exc]

\* line 48 formats the name e, which no scope of the module binds: evaluating
\* the f-string raises NameError before line 49 is reached
UnboundNameError == Exc("NameError", "name 'e' is not defined")

\* mutant: _generate_sql_query without the "if not generated_text" test of
\* lines 47-49 (None strips to the empty text, as "" does)
generate_sql_query_unchecked(context, question) ==
    { IF ~k.ok
      THEN QueryOutcome(NoValue, <<k>>, Exc("Exception", k.err))
      ELSE QueryOutcome(Text(strip(k.out.v)), <<k>>, NoExc)
      : k \in llm_generate_text(context, question) }

generate_sql_query(context, question) ==
    { IF ~k.ok
      THEN QueryOutcome(NoValue, <<k>>, Exc("Exception", k.err))
      ELSE IF ~Truthy(k.out)
      THEN QueryOutcome(NoValue, <<k>>, UnboundNameError)
      ELSE QueryOutcome(Text(strip(k.out.v)), <<k>>, NoExc)
      : k \in llm_generate_text(context, question) }

(***************************************************************************)
(* Pipable.ask                                                             *)
(***************************************************************************)
\* DatabaseConnectorInterface.execute_query(sql_query): a result set, or a
\* raised exception
connector_execute_query(sql_query) ==
    { Returned("execute_query", <<sql_query>>, r) : r \in ResultSets }
        \cup { Raised("execute_query", <<sql_query>>, NoValue, m) : m \in QueryErrors }

AskOutcome(c, cache, ret, calls, exc, cause) ==
    [connected |-> c, cache |-> cache, ret |-> ret, calls |-> calls,
     exc |-> exc, cause |-> cause]

\* line 157: raise Exception(f"Error in 'ask' method: {str(e)}")
AskError(e) == Exc("Exception", "Error in 'ask' method: " \o e.msg)

\* mutant: a failed execution also marks the orchestrator disconnected
ask_execute_disconnects(c, cache, calls, sql_query) ==
    { IF k.ok
      THEN AskOutcome(c, cache, k.out, calls \o <<k>>, NoExc, NoExc)
      ELSE AskOutcome(FALSE, cache, NoValue, calls \o <<k>>,
                      AskError(Exc("Exception", k.err)), Exc("Exception", k.err))
      : k \in connector_execute_query(sql_query) }

\* mutant: ask() without its "return result_df"
ask_execute_returns_nothing(c, cache, calls, sql_query) ==
    { IF k.ok
      THEN AskOutcome(c, cache, NoValue, calls \o <<k>>, NoExc, NoExc)
      ELSE AskOutcome(c, cache, NoValue, calls \o <<k>>,
                      AskError(Exc("Exception", k.err)), Exc("Exception", k.err))
      : k \in connector_execute_query(sql_query) }

\* lines 152-157: execute the generated SQL and return what it gave
ask_execute(c, cache, calls, sql_query) ==
    { IF k.ok
      THEN AskOutcome(c, cache, k.out, calls \o <<k>>, NoExc, NoExc)
      ELSE AskOutcome(c, cache, NoValue, calls \o <<k>>,
                      AskError(Exc("Exception", k.err)), Exc("Exception", k.err))
      : k \in connector_execute_query(sql_query) }

\* mutant: the context joined without the separating space
ask_generate_joins_without_space(c, cache, calls, create_table_statements, question) ==
    UNION { IF g.exc # NoExc
            THEN { AskOutcome(c, cache, NoValue, calls \o g.calls, AskError(g.exc), g.exc) }
            ELSE ask_execute(c, cache, calls \o g.calls, g.ret)
            : g \in generate_sql_query(Join("", create_table_statements.v), question) }

\* lines 146-157: join the statements into the context and generate the SQL
ask_generate(c, cache, calls, create_table_statements, question) ==
    UNION { IF g.exc # NoExc
            THEN { AskOutcome(c, cache, NoValue, calls \o g.calls, AskError(g.exc), g.exc) }
            ELSE ask_execute(c, cache, calls \o g.calls, g.ret)
            : g \in generate_sql_query(Join(" ", create_table_statements.v), question) }

\* lines 142-157: obtain the CREATE TABLE statements
ask_statements(c, cache, calls, question, table_names) ==
    UNION { IF b.exc # NoExc
            THEN { AskOutcome(c, b.cache, NoValue, calls \o b.calls, AskError(b.exc), b.exc) }
            ELSE ask_generate(c, b.cache, calls \o b.calls, b.ret, question)
            : b \in generate_create_table_statements(cache, table_names) }

\* mutant: self.connect() called before the try block, so that its
\* ConnectionError reaches the caller as it is
ask_connects_outside_try(c, cache, question, table_names) ==
    UNION { IF m.exc # NoExc
            THEN { AskOutcome(m.connected, cache, NoValue, m.calls, m.exc, m.exc) }
            ELSE ask_statements(m.connected, cache, m.calls, question, table_names)
            : m \in connect(c) }

\* mutant: a failed self.connect() is swallowed and ask() carries on
ask_ignores_connect_failure(c, cache, question, table_names) ==
    UNION { ask_statements(m.connected, cache, m.calls, question, table_names)
            : m \in connect(c) }

ask(c, cache, question, table_names) ==
    UNION { IF m.exc # NoExc
            THEN { AskOutcome(m.connected, cache, NoValue, m.calls, AskError(m.exc), m.exc) }
            ELSE ask_statements(m.connected, cache, m.calls, question, table_names)
            : m \in connect(c) }

(***************************************************************************)
(* The state machine: one action per method call                           *)
(***************************************************************************)
Clamp(n) == IF n < 0 THEN 0 ELSE IF n > 1 THEN 1 ELSE n

\* the record of a method call: the method, its arguments, the collaborator
\* calls it made, what it raised (exc; cause is the exception ask() caught)
\* and what it returned
Record(op, question, table_names, calls, exc, cause, ret) ==
    [op |-> op, question |-> question, table_names |-> table_names,
     calls |-> calls, exc |-> exc, cause |-> cause, ret |-> ret]

\* Pipable.__init__
Init ==
    /\ connected = FALSE
    /\ all_table_queries = None
    /\ count = 0
    /\ last = Record("__init__", NoValue, None, <<>>, NoExc, NoExc, NoValue)

Connect ==
    \E m \in connect(connected) :
        /\ connected' = m.connected
        /\ count' = IF m.exc = NoExc THEN Clamp(count + 1) ELSE count
        /\ last' = Record("connect", NoValue, None, m.calls, m.exc, NoExc, NoValue)
        /\ UNCHANGED all_table_queries

\* mutant: disconnect() that also drops the cached statements
Disconnect_clears_cache ==
    \E m \in disconnect(connected) :
        /\ connected' = m.connected
        /\ count' = IF m.exc = NoExc THEN Clamp(count - 1) ELSE count
        /\ last' = Record("disconnect", NoValue, None, m.calls, m.exc, NoExc, NoValue)
        /\ all_table_queries' = IF m.exc = NoExc THEN None ELSE all_table_queries

Disconnect ==
    \E m \in disconnect(connected) :
        /\ connected' = m.connected
        /\ count' = IF m.exc = NoExc THEN Clamp(count - 1) ELSE count
        /\ last' = Record("disconnect", NoValue, None, m.calls, m.exc, NoExc, NoValue)
        /\ UNCHANGED all_table_queries

\* a direct call of _generate_create_table_statements(table_names)
GenerateCreateTableStatements ==
    \E table_names \in TableNameArgs :
        \E b \in generate_create_table_statements(all_table_queries, table_names) :
            /\ all_table_queries' = b.cache
            /\ last' = Record("_generate_create_table_statements", NoValue, table_names,
                              b.calls, b.exc, b.cause, b.ret)
            /\ UNCHANGED <<connected, count>>

\* the connect() call that ask() makes returned: the connector's connect was
\* not called, or it succeeded
ConnectReturned(calls) ==
    \A i \in 1..Len(calls) : calls[i].fn = "connect" => calls[i].ok

Ask ==
    \E question \in Questions, table_names \in TableNameArgs :
        \E a \in ask(connected, all_table_queries, question, table_names) :
            /\ connected' = a.connected
            /\ all_table_queries' = a.cache
            /\ count' = IF ConnectReturned(a.calls) THEN Clamp(count + 1) ELSE count
            /\ last' = Record("ask", question, table_names, a.calls, a.exc, a.cause, a.ret)

Next == Connect \/ Disconnect \/ GenerateCreateTableStatements \/ Ask

Spec == Init /\ [][Next]_vars

(***************************************************************************)
(* Reading a method call's record                                          *)
(***************************************************************************)
Build == "_generate_create_table_statements"

\* the connector's fn was called during the recorded call
Called(rec, fn) == \E i \in 1..Len(rec.calls) : rec.calls[i].fn = fn

\* some collaborator call of the recorded call raised
SomeCallRaised(rec) == \E i \in 1..Len(rec.calls) : ~rec.calls[i].ok

\* the i-th collaborator call is the generate_text call
GenAt(rec, i) == rec.calls[i].fn = "generate_text"

\* the i-th collaborator call is the catalog query: an execute_query made
\* before any generate_text
CatalogCallAt(rec, i) ==
    /\ rec.calls[i].fn = "execute_query"
    /\ \A j \in 1..(i - 1) : ~GenAt(rec, j)

\* the i-th collaborator call executes generated SQL: an execute_query made
\* after the generate_text
SqlCallAt(rec, i) ==
    /\ rec.calls[i].fn = "execute_query"
    /\ \E j \in 1..(i - 1) : GenAt(rec, j)

\* the language model was called and returned a falsy text (None or "")
EmptyGeneration(rec) ==
    \E i \in 1..Len(rec.calls) :
        GenAt(rec, i) /\ rec.calls[i].ok /\ ~Truthy(rec.calls[i].out)

\* the catalog query returned something that is no column-info frame
BadCatalogAnswer(rec) ==
    \E i \in 1..Len(rec.calls) :
        CatalogCallAt(rec, i) /\ rec.calls[i].ok /\ rec.calls[i].out.none

\* some step of the recorded call failed
AnyFailure(rec) == SomeCallRaised(rec) \/ EmptyGeneration(rec) \/ BadCatalogAnswer(rec)

AskPrefix == "Error in 'ask' method: "

(***************************************************************************)
(* C1: from Disconnected, after any sequence of connect()/disconnect()     *)
(* calls whose connector calls may succeed or fail, `connected` is true    *)
(* exactly when the count of calls that returned (connects minus           *)
(* disconnects, clamped to 0..1 after every call) is 1; and a transition   *)
(* already in effect is never applied again: the connector's connect is    *)
(* called only from Disconnected, its disconnect only from Connected.      *)
(***************************************************************************)
C1_ConnectedIsClampedCount ==
    /\ (connected <=> count = 1)
    /\ [][ /\ (connected' <=> count' = 1)
           /\ (Called(last', "connect") => ~connected)
           /\ (Called(last', "disconnect") => connected) ]_vars

\* a second connect() in a row: no connector call, the count stays clamped at 1
C1_Witness ==
    /\ last.op = "connect"
    /\ last.calls = <<>>
    /\ last.exc = NoExc
    /\ connected
    /\ count = 1

(***************************************************************************)
(* C2: connect() while Connected and disconnect() while Disconnected are   *)
(* no-ops: no connector call, nothing raised, the connection state and the *)
(* cached statements unchanged.                                            *)
(***************************************************************************)
C2_NoOpWhenInTargetState ==
    [][ \/ (last'.op = "connect" /\ connected)
        \/ (last'.op = "disconnect" /\ ~connected)
        => /\ last'.calls = <<>>
           /\ last'.exc = NoExc
           /\ connected' = connected
           /\ all_table_queries' = all_table_queries ]_vars

\* a disconnect() made while Disconnected, the statements being cached
C2_Witness ==
    /\ last.op = "disconnect"
    /\ last.calls = <<>>
    /\ ~connected
    /\ ~all_table_queries.none

(***************************************************************************)
(* C3: when the connector call made by connect() or disconnect() fails,    *)
(* the method raises a ConnectionError and the connection state is what it *)
(* was: Disconnected after a failed connect, Connected after a failed      *)
(* disconnect.                                                             *)
(***************************************************************************)
C3_FailedTransitionKeepsState ==
    [][ last'.op \in {"connect", "disconnect"} /\ SomeCallRaised(last')
        => /\ last'.exc.kind = "ConnectionError"
           /\ connected' = connected
           /\ (last'.op = "connect" => ~connected')
           /\ (last'.op = "disconnect" => connected') ]_vars

\* a disconnect() whose connector call raised
C3_Witness ==
    /\ last.op = "disconnect"
    /\ SomeCallRaised(last)
    /\ last.exc = Exc("ConnectionError", "Failed to disconnect from the database.")
    /\ connected

(***************************************************************************)
(* C4: a second build on the same instance, made after a build that        *)
(* returned, returns the same cached statements whatever its table_names   *)
(* filter is (None first, ["orders"] next) and issues no catalog query.    *)
(***************************************************************************)
C4_SecondBuildReturnsCache ==
    [][ last.op = Build /\ last.exc = NoExc /\ last'.op = Build
        => /\ last'.exc = NoExc
           /\ last'.ret = last.ret
           /\ last'.ret = all_table_queries
           /\ last'.calls = <<>> ]_vars

\* a build filtered to ["orders"] that made no query and returned the cached
\* statements of both tables
C4_Witness ==
    /\ last.op = Build
    /\ last.table_names = Some(<<"orders">>)
    /\ last.calls = <<>>
    /\ last.ret = Some(<< "CREATE TABLE orders (id integer);",
                          "CREATE TABLE users (id integer, name text);" >>)

(***************************************************************************)
(* C5: when the language model returns an empty or falsy text, the         *)
(* query-generation step raises ValueError("LLM failed to generate a SQL   *)
(* query.") and ask() raises "Error in 'ask' method: LLM failed to         *)
(* generate a SQL query.".                                                 *)
(***************************************************************************)
C5_EmptyGenerationRaisesValueError ==
    last.op = "ask" /\ EmptyGeneration(last)
    => /\ last.cause = Exc("ValueError", "LLM failed to generate a SQL query.")
       /\ last.exc.msg = "Error in 'ask' method: LLM failed to generate a SQL query."

(***************************************************************************)
(* C6: in an ask() where the language model returns the empty string,      *)
(* ask() raises and execute_query is not called after the generate_text    *)
(* call.                                                                   *)
(***************************************************************************)
C6_EmptyTextIsNotExecuted ==
    last.op = "ask"
    => \A i \in 1..Len(last.calls) :
           GenAt(last, i) /\ last.calls[i].ok /\ last.calls[i].out = Some(<<>>)
           => /\ last.exc # NoExc
              /\ last.ret = NoValue
              /\ \A j \in (i + 1)..Len(last.calls) :
                     last.calls[j].fn # "execute_query"

\* an ask() that connected, built the statements and got "" from the model
C6_Witness ==
    /\ last.op = "ask"
    /\ Len(last.calls) = 3
    /\ GenAt(last, 3)
    /\ last.calls[3].ok
    /\ last.calls[3].out = Some(<<>>)

(***************************************************************************)
(* C7: ask() never moves the connection state to Disconnected and never    *)
(* calls the connector's disconnect; when execute_query, or any other step *)
(* after the connect, fails, ask() raises a message that starts with       *)
(* "Error in 'ask' method: " and the state is Connected afterwards.        *)
(***************************************************************************)
C7_AskNeverDisconnects ==
    [][ last'.op = "ask"
        => /\ (connected => connected')
           /\ ~Called(last', "disconnect")
           /\ (AnyFailure(last') /\ ConnectReturned(last'.calls)
               => /\ connected'
                  /\ last'.exc.msg = AskPrefix \o last'.cause.msg) ]_vars

\* an ask() whose execution of the generated SQL raised
C7_Witness ==
    /\ last.op = "ask"
    /\ Len(last.calls) >= 2
    /\ SqlCallAt(last, Len(last.calls))
    /\ ~last.calls[Len(last.calls)].ok
    /\ last.exc = Exc("Exception", "Error in 'ask' method: relation does not exist")
    /\ connected

C9_AskReturnsExecutionResult ==
    last.op = "ask" /\ ~AnyFailure(last)
    => /\ last.exc = NoExc
       /\ connected
       /\ Len(last.calls) >= 2
       /\ SqlCallAt(last, Len(last.calls))
       /\ GenAt(last, Len(last.calls) - 1)
       /\ last.ret = last.calls[Len(last.calls)].out

\* an ask() from Disconnected with nothing cached that returned a result
C9_Witness ==
    /\ last.op = "ask"
    /\ last.exc = NoExc
    /\ Len(last.calls) = 4
    /\ last.calls[1].fn = "connect"
    /\ last.ret = "df_one_row"
    /\ connected

(***************************************************************************)
(* C10: for every table of the catalog rows the rendered statement is      *)
(* "CREATE TABLE <table_name> (" \o the "<column_name> <data_type>" pairs  *)
(* of the table in row order joined by ", " \o ");", and exactly one       *)
(* statement is produced per distinct table name; the rows (users, id,     *)
(* integer), (users, name, text) give exactly                              *)
(* "CREATE TABLE users (id integer, name text);".                          *)
(***************************************************************************)
ExpectedStatement(df, t) ==
    LET ofTable(row) == row.table_name = t
        rows == SelectSeq(df, ofTable)
    IN  "CREATE TABLE " \o t \o " ("
            \o Join(", ", [r \in 1..Len(rows) |->
                              rows[r].column_name \o " " \o rows[r].data_type])
            \o ");"

StatementsMatchTables(df, stmts) ==
    LET names == { df[r].table_name : r \in 1..Len(df) }
    IN  /\ Len(stmts) = Cardinality(names)
        /\ \A t \in names :
               \E j \in 1..Len(stmts) : stmts[j] = ExpectedStatement(df, t)

UsersFrame ==
    << [table_name |-> "users", column_name |-> "id", data_type |-> "integer"],
       [table_name |-> "users", column_name |-> "name", data_type |-> "text"] >>

C10_OneStatementPerTable ==
    \A i \in 1..Len(last.calls) :
        CatalogCallAt(last, i) /\ last.calls[i].ok /\ ~last.calls[i].out.none
        => /\ StatementsMatchTables(last.calls[i].out.v, all_table_queries.v)
           /\ (last.calls[i].out.v = UsersFrame
               => all_table_queries.v
                      = << "CREATE TABLE users (id integer, name text);" >>)

(***************************************************************************)
(* C11: within one ask() the collaborator calls are made in the order      *)
(* connect (only from Disconnected), execute_query(catalog query) (only    *)
(* with nothing cached), generate_text(context, question),                 *)
(* execute_query(generated SQL); a step is made only if every step before  *)
(* it succeeded, so a failed connect is followed by no other call.         *)
(***************************************************************************)
\* the calls an ask() makes when no step fails, from a given object state
AskSteps(c, cache) ==
    (IF c THEN <<>> ELSE << "connect" >>)
        \o (IF cache.none THEN << "execute_query" >> ELSE <<>>)
        \o << "generate_text", "execute_query" >>

\* the i-th step of the recorded call succeeded
StepSucceeded(rec, i) ==
    /\ rec.calls[i].ok
    /\ (CatalogCallAt(rec, i) => ~rec.calls[i].out.none)
    /\ (GenAt(rec, i) => Truthy(rec.calls[i].out))

C11_AskStepsInOrder ==
    [][ last'.op = "ask"
        => LET steps == AskSteps(connected, all_table_queries)
               n == Len(last'.calls)
           IN  /\ n >= 1
               /\ n <= Len(steps)
               /\ \A i \in 1..n : last'.calls[i].fn = steps[i]
               /\ \A i \in 1..(n - 1) : StepSucceeded(last', i)
               /\ (n < Len(steps) => ~StepSucceeded(last', n))
               /\ (last'.calls[1].fn = "connect" /\ ~last'.calls[1].ok => n = 1) ]_vars

\* an ask() from Disconnected whose connect failed: one call and no more
C11_Witness ==
    /\ last.op = "ask"
    /\ Len(last.calls) = 1
    /\ last.calls[1].fn = "connect"
    /\ ~last.calls[1].ok
    /\ ~connected

(***************************************************************************)
(* C12: once the statements have been built, they are never changed or     *)
(* cleared for the rest of the instance's life: no later call (with any    *)
(* table_names filter, after any disconnect()/connect() cycle, after any   *)
(* failed ask()) issues a catalog query, and every later ask() hands the   *)
(* same context to the language model.                                     *)
(***************************************************************************)
RECURSIVE ContextOf(_)
\* the statements, each after the first preceded by one space
ContextOf(stmts) ==
    IF Len(stmts) = 0 THEN ""
    ELSE IF Len(stmts) = 1 THEN stmts[1]
    ELSE ContextOf(SubSeq(stmts, 1, Len(stmts) - 1)) \o " " \o stmts[Len(stmts)]

C12_CacheIsNeverRebuilt ==
    [][ ~all_table_queries.none
        => /\ all_table_queries' = all_table_queries
           /\ \A i \in 1..Len(last'.calls) :
                  /\ ~CatalogCallAt(last', i)
                  /\ (GenAt(last', i)
                      => last'.calls[i].arg[1] = ContextOf(all_table_queries.v)) ]_vars

\* an ask() filtered to ["orders"] that had to connect again, made no catalog
\* query and gave the model the cached statements of both tables
C12_Witness ==
    /\ last.op = "ask"
    /\ last.table_names = Some(<<"orders">>)
    /\ Len(last.calls) >= 2
    /\ last.calls[1].fn = "connect"
    /\ GenAt(last, 2)
    /\ last.calls[2].arg[1]
           = "CREATE TABLE orders (id integer); CREATE TABLE users (id integer);"
    /\ all_table_queries
           = Some(<< "CREATE TABLE orders (id integer);",
                     "CREATE TABLE users (id integer);" >>)

(***************************************************************************)
(* C13: no retries: one ask() calls the connector's connect at most once,  *)
(* generate_text at most once and execute_query at most twice (at most     *)
(* once for the catalog query, at most once for the generated SQL); one    *)
(* connect() or disconnect() calls its connector method at most once.      *)
(***************************************************************************)
\* how many of the recorded calls are calls of the connector's or client's fn
CallCount(rec, fn) == Cardinality({ i \in 1..Len(rec.calls) : rec.calls[i].fn = fn })

CatalogCallCount(rec) == Cardinality({ i \in 1..Len(rec.calls) : CatalogCallAt(rec, i) })

SqlCallCount(rec) == Cardinality({ i \in 1..Len(rec.calls) : SqlCallAt(rec, i) })

C13_NoRetries ==
    /\ last.op = "ask"
       => /\ CallCount(last, "connect") <= 1
          /\ CallCount(last, "generate_text") <= 1
          /\ CallCount(last, "execute_query") <= 2
          /\ CatalogCallCount(last) <= 1
          /\ SqlCallCount(last) <= 1
          /\ CallCount(last, "disconnect") = 0
    /\ last.op = "connect"
       => /\ Len(last.calls) <= 1
          /\ \A i \in 1..Len(last.calls) : last.calls[i].fn = "connect"
    /\ last.op = "disconnect"
       => /\ Len(last.calls) <= 1
          /\ \A i \in 1..Len(last.calls) : last.calls[i].fn = "disconnect"

\* a connect() whose one connector call raised: it was not tried again
C13_Witness ==
    /\ last.op = "connect"
    /\ Len(last.calls) = 1
    /\ ~last.calls[1].ok
    /\ last.exc.kind = "ConnectionError"

(***************************************************************************)
(* C14 (as claimed): when the catalog query or the grouping/rendering      *)
(* fails, the build fails with a generic failure that wraps the underlying *)
(* cause: the message of the raised failure carries the cause's message.   *)
(***************************************************************************)
\* the catalog query raised, or answered with something that cannot be grouped
BuildFailed(rec) ==
    \/ BadCatalogAnswer(rec)
    \/ \E i \in 1..Len(rec.calls) : CatalogCallAt(rec, i) /\ ~rec.calls[i].ok

\* the texts a message can put before or after the message it carries
MessageAffixes ==
    { "", ": ", " ", "Error generating CREATE TABLE statements.",
      "Error generating CREATE TABLE statements. ",
      "Error generating CREATE TABLE statements: ",
      "Error generating CREATE TABLE statements", AskPrefix }

\* msg carries m: it is m, with or without a text before and after it
Carries(msg, m) ==
    /\ Len(msg) >= Len(m)
    /\ \E before \in MessageAffixes, after \in MessageAffixes :
           msg = before \o m \o after

C14_BuildFailureCarriesCause ==
    last.op = Build /\ BuildFailed(last)
    => /\ last.exc.kind = "ValueError"
       /\ Carries(last.exc.msg, last.cause.msg)

(***************************************************************************)
(* C14 (amended): when the catalog query or the grouping/rendering fails,  *)
(* the build raises a ValueError whose message is always "Error generating *)
(* CREATE TABLE statements."; the cause's message is logged and is no part *)
(* of the raised message; the build fails in no other case.                *)
(***************************************************************************)
C14_BuildFailureIsGeneric ==
    /\ last.op = Build
       => /\ (BuildFailed(last) <=> last.exc # NoExc)
          /\ (BuildFailed(last)
              => /\ last.exc = Exc("ValueError",
                                   "Error generating CREATE TABLE statements.")
                 /\ last.cause # NoExc
                 /\ ~Carries(last.exc.msg, last.cause.msg)
                 /\ last.ret = None)
    /\ last.op = "ask" /\ BuildFailed(last)
       => /\ last.cause = Exc("ValueError",
                              "Error generating CREATE TABLE statements.")
          /\ \A i \in 1..Len(last.calls) :
                 ~last.calls[i].ok => ~Carries(last.exc.msg, last.calls[i].err)

\* a build whose grouping failed on an answer that is no frame
C14_Witness ==
    /\ last.op = Build
    /\ BadCatalogAnswer(last)
    /\ last.cause.kind = "AttributeError"
    /\ last.exc.msg = "Error generating CREATE TABLE statements."

(***************************************************************************)
(* C15: the context handed to generate_text is the rendered statements, in *)
(* their cached order, joined by one space (the empty string when there is *)
(* no statement), and the question handed over is the caller's question    *)
(* unchanged.                                                              *)
(***************************************************************************)
C15_ContextIsJoinedStatements ==
    last.op = "ask"
    => \A i \in 1..Len(last.calls) :
           GenAt(last, i)
           => /\ ~all_table_queries.none
              /\ last.calls[i].arg
                     = << ContextOf(all_table_queries.v), last.question >>
              /\ (all_table_queries.v = <<>> => last.calls[i].arg[1] = "")

\* an ask() that handed two statements and its question to the model
C15_Witness ==
    /\ last.op = "ask"
    /\ \E i \in 1..Len(last.calls) :
           /\ GenAt(last, i)
           /\ last.calls[i].arg
                  = << "CREATE TABLE orders (id integer); CREATE TABLE users (id integer, name text);",
                       "how many orders" >>

(***************************************************************************)
(* C16: the catalog query built when nothing is cached filters by          *)
(* table_name IN (<the given names>) when table_names is a non-empty       *)
(* collection and by table_schema = 'public' when table_names is None or   *)
(* empty.                                                                  *)
(***************************************************************************)
\* the filter claimed for each value of table_names
ClaimedFilter(table_names) ==
    IF table_names = Some(<<"orders">>)
    THEN "WHERE table_name IN ('orders')"
    ELSE IF table_names = Some(<<"orders", "users">>)
    THEN "WHERE table_name IN ('orders','users')"
    ELSE "WHERE table_schema = 'public'"

C16_CatalogQueryFilter ==
    last.op \in {"ask", Build}
    => \A i \in 1..Len(last.calls) :
           CatalogCallAt(last, i)
           => last.calls[i].arg
                  = << "SELECT table_name, column_name, data_type FROM information_schema.columns "
                           \o ClaimedFilter(last.table_names) \o ";" >>

\* a build given the empty list: the query filters by the public schema
C16_Witness ==
    /\ last.op = Build
    /\ last.table_names = Some(<<>>)
    /\ Len(last.calls) = 1
    /\ last.calls[1].arg
           = << "SELECT table_name, column_name, data_type FROM information_schema.columns WHERE table_schema = 'public';" >>

(***************************************************************************)
(* C17: the SQL that ask() hands to execute_query is the language model's  *)
(* output without its leading and trailing whitespace, and it is never the *)
(* empty string: an output that is empty once trimmed (whitespace only) is *)
(* rejected as an empty generation and not executed.                       *)
(***************************************************************************)
C17_ExecutedSqlIsTrimmedAndNotEmpty ==
    last.op = "ask"
    => \A i \in 1..Len(last.calls) :
           /\ (SqlCallAt(last, i)
               => /\ GenAt(last, i - 1)
                  /\ last.calls[i].arg
                         = << Text(strip(last.calls[i - 1].out.v)) >>
                  /\ last.calls[i].arg # << "" >>)
           /\ (GenAt(last, i) /\ last.calls[i].ok
                   /\ strip(last.calls[i].out.v) = <<>>
               => /\ last.exc # NoExc
                  /\ i = Len(last.calls))

(***************************************************************************)
(* C18: a failed build leaves nothing cached: after an ask() that failed   *)
(* in the catalog query or the rendering, the next ask() on the instance   *)
(* issues the catalog query again, with its own table_names filter; the    *)
(* statements are cached only by a build that completed.                   *)
(***************************************************************************)
\* the recorded call reached the build: every call but an ask() whose
\* connect() raised
ReachedBuild(rec) ==
    \/ rec.op = Build
    \/ rec.op = "ask" /\ ConnectReturned(rec.calls)

C18_FailedBuildLeavesCacheUnset ==
    [][ /\ (all_table_queries.none /\ ReachedBuild(last')
            => \E i \in 1..Len(last'.calls) :
                   /\ CatalogCallAt(last', i)
                   /\ last'.calls[i].arg = << column_info_query(last'.table_names) >>)
        /\ (all_table_queries.none /\ BuildFailed(last')
            => all_table_queries'.none)
        /\ (all_table_queries.none /\ ~all_table_queries'.none
            => \E i \in 1..Len(last'.calls) :
                   /\ CatalogCallAt(last', i)
                   /\ last'.calls[i].ok
                   /\ ~last'.calls[i].out.none
                   /\ all_table_queries'.v \in RenderStatements(last'.calls[i].out.v)) ]_vars

\* an ask() made while Connected with nothing cached, filtered to ["orders"],
\* whose catalog query raised: nothing is cached after it
C18_Witness ==
    /\ last.op = "ask"
    /\ last.table_names = Some(<<"orders">>)
    /\ Len(last.calls) = 1
    /\ CatalogCallAt(last, 1)
    /\ ~last.calls[1].ok
    /\ all_table_queries.none
    /\ connected

====
